---- MODULE Spec2Model ----
(***************************************************************************)
(* Model of src/main.py: the LeetCode profile proxy (fetch_leetcode_user), *)
(* the shared query template LEETCODE_QUERY and the /test diagnostic       *)
(* handler (test_database).                                                *)
(*                                                                         *)
(* JSON values are encoded homogeneously.  A dictionary is a record over   *)
(* the keys the code reads; each entry is an optional value                *)
(*     [p |-> "absent" | "null" | "val", v |-> value]                      *)
(* where "absent" is a missing key, "null" is JSON null / Python None and  *)
(* v is only meaningful when p = "val".  A float percentage is held as an  *)
(* integer number of hundredths (50.0 is 5000, 33.33 is 3333).             *)
(***************************************************************************)
EXTENDS Integers, Sequences, FiniteSets, TLC

VARIABLES
    pc,         \* pc[i]: position of invocation i inside fetch_leetcode_user
    username,   \* username[i]: the argument of invocation i
    payload,    \* payload[i]: address of the dict the local `payload` is bound to
    topHeap,    \* address -> query dict {"query":..., "variables": <address>}
    varsHeap,   \* address -> variables dict {"username": ...}
    sent,       \* sent[i]: the JSON body invocation i handed to requests.post
    calls,      \* calls[i]: outbound calls issued by invocation i
    reply,      \* reply[i]: what requests.post produced for invocation i
    outcome,    \* outcome[i]: how invocation i ended
    db_in,      \* the database / environment state seen by the last /test
    response    \* what the last /test produced

vars == <<pc, username, payload, topHeap, varsHeap, sent, calls, reply,
          outcome, db_in, response>>

fetchVars == <<pc, username, payload, topHeap, varsHeap, sent, calls, reply,
               outcome>>

testVars == <<db_in, response>>

(***************************************************************************)
(* Bounds of the model                                                     *)
(***************************************************************************)
NumProcs == 2
MaxCount == 3
MaxColls == 12

Procs == 1..NumProcs

Min(a, b) == IF a < b THEN a ELSE b

SetMax(S) == CHOOSE x \in S : \A y \in S : y <= x

(***************************************************************************)
(* Optional values                                                         *)
(***************************************************************************)
Absent(d) == [p |-> "absent", v |-> d]

Null(d) == [p |-> "null", v |-> d]

Val(x) == [p |-> "val", v |-> x]

\* dict.get(key, default): the default only replaces a missing key
DictGet(f, dflt) == IF f.p = "absent" THEN dflt ELSE f

\* dict.get(key): None for a missing key
DictGetNone(f) == IF f.p = "absent" THEN Null(f.v) ELSE f

StrTruthy(f) == f.p = "val" /\ f.v # ""

IntTruthy(f) == f.p = "val" /\ f.v # 0

SeqTruthy(f) == f.p = "val" /\ f.v # <<>>

\* a dict is truthy iff it has at least one key
DictTruthy(f) == f.p = "val" /\ \E k \in DOMAIN f.v : f.v[k].p # "absent"

(***************************************************************************)
(* Shapes of the upstream payload (the fields the GraphQL query selects)   *)
(***************************************************************************)
EmptyItem ==
    [difficulty |-> Absent(""), count |-> Absent(0), submissions |-> Absent(0)]

EmptySSG ==
    [acSubmissionNum |-> Absent(<<>>), totalSubmissionNum |-> Absent(<<>>)]

EmptyProfile ==
    [ranking |-> Absent(0), reputation |-> Absent(0), starRating |-> Absent(0),
     aboutMe |-> Absent(""), userAvatar |-> Absent(""), realName |-> Absent(""),
     school |-> Absent(""), company |-> Absent(""), jobTitle |-> Absent(""),
     countryName |-> Absent(""), websites |-> Absent(<<>>),
     skillTags |-> Absent(<<>>)]

EmptyMatched ==
    [username |-> Absent(""), profile |-> Absent(EmptyProfile),
     badges |-> Absent(<<>>), submitStatsGlobal |-> Absent(EmptySSG)]

EmptyContest ==
    [rating |-> Absent(0), ranking |-> Absent(0),
     attendedContestsCount |-> Absent(0), globalRanking |-> Absent(0),
     totalParticipants |-> Absent(0), topPercentage |-> Absent(0)]

EmptyData ==
    [matchedUser |-> Absent(EmptyMatched),
     userContestRanking |-> Absent(EmptyContest)]

EmptyBody == [kind |-> "dict", errors |-> Absent(<<>>), data |-> Absent(EmptyData)]

(***************************************************************************)
(* Results of fetch_leetcode_user                                          *)
(***************************************************************************)
NoStat == [solved |-> Absent(0), total |-> Absent(0), acceptanceRate |-> 0,
           submissions |-> Absent(0)]

NoResult ==
    [username |-> Null(""), name |-> Null(""), avatar |-> Null(""),
     ranking |-> Null(0), reputation |-> Null(0), starRating |-> Null(0),
     about |-> Null(""), company |-> Null(""), jobTitle |-> Null(""),
     school |-> Null(""), country |-> Null(""), websites |-> Null(<<>>),
     skills |-> Null(<<>>), badges |-> Null(<<>>),
     stats |-> [all |-> NoStat, easy |-> NoStat, medium |-> NoStat,
                hard |-> NoStat],
     contest |-> Null(EmptyContest)]

NoDetail == [text |-> "", arg |-> ""]

NoOutcome ==
    [kind |-> "none", status_code |-> 0, detail |-> NoDetail, exc |-> "",
     result |-> NoResult]

\* raise HTTPException(status_code=..., detail=...)
HTTPException(status_code, detail) ==
    [kind |-> "HTTPException", status_code |-> status_code, detail |-> detail,
     exc |-> "", result |-> NoResult]

\* an exception of class exc that no handler of fetch_leetcode_user catches
Uncaught(exc) ==
    [kind |-> "exception", status_code |-> 0, detail |-> NoDetail, exc |-> exc,
     result |-> NoResult]

\* return result
Returned(result) ==
    [kind |-> "return", status_code |-> 0, detail |-> NoDetail, exc |-> "",
     result |-> result]

(***************************************************************************)
(* Lines 143-160: the per-difficulty statistics                            *)
(***************************************************************************)
\* item.get("difficulty", "All"): the key an item is filed under
DiffKey(item) ==
    IF item.difficulty.p = "absent" THEN "All"
    ELSE IF item.difficulty.p = "null" THEN "<None>"
    ELSE item.difficulty.v

\* by_diff(lst): {item.get("difficulty", "All"): item for item in lst};
\* a dict comprehension keeps the last item of each key
by_diff(lst) ==
    [d \in {DiffKey(lst[i]) : i \in 1..Len(lst)} |->
        lst[SetMax({i \in 1..Len(lst) : DiffKey(lst[i]) = d})]]

\* ac_map.get(diff, {})
MapGet(m, diff) == IF diff \in DOMAIN m THEN m[diff] ELSE EmptyItem

\* round(x, 2) of x = ac / tot * 100, in hundredths: the nearest hundredth,
\* an exact half going to the even neighbour.  (CPython's result on the
\* double ac / tot * 100 is this value for every 0 < |tot| < 160; at
\* tot = 160 the double falls on the other side of a tie.)
RoundRate(ac, tot) ==
    LET n == IF tot < 0 THEN -(ac * 10000) ELSE ac * 10000
        d == IF tot < 0 THEN -tot ELSE tot
        q == n \div d
        r == n - q * d
    IN  IF 2 * r < d THEN q
        ELSE IF 2 * r > d THEN q + 1
        ELSE IF q % 2 = 0 THEN q ELSE q + 1

\* line 154: round((ac / tot * 100), 2) if tot else 0.0
Acceptance(ac, tot) == IF IntTruthy(tot) THEN RoundRate(ac.v, tot.v) ELSE 0

\* lines 151-153
AcOf(ac_map, diff) == DictGet(MapGet(ac_map, diff).count, Val(0))

TotOf(total_map, diff) == DictGet(MapGet(total_map, diff).count, Val(0))

SubmissionsOf(total_map, diff) ==
    DictGet(MapGet(total_map, diff).submissions, Val(0))

\* line 154 divides None by a number when the accepted count is null
BucketFaults(ac_map, total_map, diff) ==
    IntTruthy(TotOf(total_map, diff)) /\ AcOf(ac_map, diff).p # "val"

\* lines 155-160
Bucket(ac_map, total_map, diff) ==
    [solved |-> AcOf(ac_map, diff),
     total |-> TotOf(total_map, diff),
     acceptanceRate |-> Acceptance(AcOf(ac_map, diff), TotOf(total_map, diff)),
     submissions |-> SubmissionsOf(total_map, diff)]

DIFFS == <<"All", "Easy", "Medium", "Hard">>

(***************************************************************************)
(* Lines 134-181: shaping the response                                     *)
(***************************************************************************)
\* line 178: contest or None
ContestOrNone(contest) ==
    IF DictTruthy(contest) THEN contest ELSE Null(EmptyContest)

\* lines 174-176: value or []
ListOrEmpty(f) == IF SeqTruthy(f) THEN f ELSE Val(<<>>)

\* line 164: profile.get("realName") or matched.get("username")
NameOf(profile, matched) ==
    IF StrTruthy(profile.realName) THEN profile.realName
    ELSE DictGetNone(matched.username)

\* lines 162-179
Result(matched, profile, stats, contest) ==
    [username |-> DictGetNone(matched.username),
     name |-> NameOf(profile, matched),
     avatar |-> DictGetNone(profile.userAvatar),
     ranking |-> DictGetNone(profile.ranking),
     reputation |-> DictGetNone(profile.reputation),
     starRating |-> DictGetNone(profile.starRating),
     about |-> DictGetNone(profile.aboutMe),
     company |-> DictGetNone(profile.company),
     jobTitle |-> DictGetNone(profile.jobTitle),
     school |-> DictGetNone(profile.school),
     country |-> DictGetNone(profile.countryName),
     websites |-> ListOrEmpty(profile.websites),
     skills |-> ListOrEmpty(profile.skillTags),
     badges |-> ListOrEmpty(matched.badges),
     stats |-> stats,
     contest |-> ContestOrNone(contest)]

\* lines 134-181, for a truthy `matched` dict and the enclosing `data` dict
Shape(matched, data) ==
    LET contest == DictGetNone(data.userContestRanking)
        profile == DictGet(matched.profile, Val(EmptyProfile))
        ssg == DictGet(matched.submitStatsGlobal, Val(EmptySSG))
    IN  IF ssg.p # "val" THEN Uncaught("AttributeError")
        ELSE
        LET ac_list == DictGet(ssg.v.acSubmissionNum, Val(<<>>))
            total_list == DictGet(ssg.v.totalSubmissionNum, Val(<<>>))
        IN  IF ac_list.p # "val" \/ total_list.p # "val"
            THEN Uncaught("TypeError")
            ELSE
            LET ac_map == by_diff(ac_list.v)
                total_map == by_diff(total_list.v)
                stats == [all |-> Bucket(ac_map, total_map, "All"),
                          easy |-> Bucket(ac_map, total_map, "Easy"),
                          medium |-> Bucket(ac_map, total_map, "Medium"),
                          hard |-> Bucket(ac_map, total_map, "Hard")]
            IN  IF \E i \in 1..Len(DIFFS) :
                       BucketFaults(ac_map, total_map, DIFFS[i])
                THEN Uncaught("TypeError")
                ELSE IF profile.p # "val" THEN Uncaught("AttributeError")
                ELSE Returned(Result(matched, profile.v, stats, contest))

(***************************************************************************)
(* Lines 118-132: classifying the upstream answer                          *)
(***************************************************************************)
\* a slip: only 4xx and 5xx answers are taken for failures
StatusIsError(status_code) == status_code >= 400

\* line 123: r.status_code != 200
StatusNotOk(status_code) == status_code # 200

\* a slip: "errors" in data and not data["errors"]
ErrorsNotPopulated(body) == body.errors.p # "absent" /\ ~SeqTruthy(body.errors)

\* line 127: "errors" in data and data["errors"]
ErrorsPopulated(body) == body.errors.p # "absent" /\ SeqTruthy(body.errors)

\* lines 130-132, for a response body that is a JSON object
Matched(body) ==
    LET data == DictGet(body.data, Val(EmptyData))
    IN  IF data.p # "val" THEN Uncaught("AttributeError")
        ELSE
        LET matched == DictGetNone(data.v.matchedUser)
        IN  IF ~DictTruthy(matched)
            THEN HTTPException(404, [text |-> "User not found", arg |-> ""])
            ELSE Shape(matched.v, data.v)

\* lines 126-132: r.json() and what follows, by the kind of body
Parsed(body) ==
    IF body.kind = "nonjson" THEN Uncaught("JSONDecodeError")
    ELSE IF body.kind = "null" THEN Uncaught("TypeError")
    ELSE IF body.kind = "list" THEN Uncaught("AttributeError")
    ELSE IF ErrorsPopulated(body)
    THEN HTTPException(404, [text |-> "User not found or LeetCode error",
                             arg |-> ""])
    ELSE Matched(body)

\* lines 120-121: except requests.RequestException as e
TransportFailure(message) ==
    HTTPException(502, [text |-> "Failed to reach LeetCode: ",
                        arg |-> message])

\* lines 123-181: everything after requests.post returned a response
Handle(rsp) ==
    IF StatusNotOk(rsp.status_code)
    THEN HTTPException(502, [text |-> "LeetCode API error: HTTP ",
                             arg |-> ToString(rsp.status_code)])
    ELSE Parsed(rsp.body)

(***************************************************************************)
(* Lines 71-111: the module-level query template, held on a heap so that   *)
(* dict.copy() (a shallow copy) and item assignment keep their reference   *)
(* semantics.  Address 0 holds the module-level objects, address i the     *)
(* objects invocation i allocates.                                         *)
(***************************************************************************)
Addrs == 0..NumProcs

QueryText == "query getUserProfile($username: String!) { ... }"

NoDict == [query |-> "", variables |-> -1]

NoVars == [username |-> "<unallocated>"]

\* lines 71-111
LEETCODE_QUERY == topHeap[0]

\* json=payload: the request body serialised from the dict at address a
Json(a) ==
    [query |-> topHeap[a].query,
     variables |-> varsHeap[topHeap[a].variables]]

NoJson == [query |-> "", variables |-> NoVars]

(***************************************************************************)
(* What the upstream may answer                                            *)
(***************************************************************************)
Usernames == {"alice", "bob"}

Messages == {"Read timed out. (read timeout=12)", "Name or service not known"}

StatusCodes == {200, 201, 404, 500}

NoReply == [transport |-> "none", message |-> "", status_code |-> 0,
            body |-> EmptyBody]

Raised(message) == [transport |-> "error", message |-> message,
                    status_code |-> 0, body |-> EmptyBody]

Answered(status_code, body) ==
    [transport |-> "ok", message |-> "", status_code |-> status_code,
     body |-> body]

StrOpts == {Absent(""), Null(""), Val(""), Val("Alice A.")}

ListOpts == {Absent(<<>>), Null(<<>>), Val(<<>>), Val(<<"x">>)}

FullProfile ==
    [ranking |-> Val(1234), reputation |-> Val(7), starRating |-> Val(3),
     aboutMe |-> Val("hi"), userAvatar |-> Val("a.png"),
     realName |-> Val("Alice A."), school |-> Val("MIT"),
     company |-> Val("ACME"), jobTitle |-> Val("SWE"),
     countryName |-> Val("NZ"), websites |-> Val(<<"x">>),
     skillTags |-> Val(<<"x">>)]

Profiles ==
    {[FullProfile EXCEPT !.websites = w, !.skillTags = s] :
        w \in ListOpts, s \in ListOpts}
    \cup {[FullProfile EXCEPT !.realName = rn] : rn \in StrOpts}
    \cup {EmptyProfile}

ProfileOpts ==
    {Absent(EmptyProfile), Null(EmptyProfile)} \cup {Val(x) : x \in Profiles}

Item(d, c, s) == [difficulty |-> d, count |-> c, submissions |-> s]

BaseAc == <<Item(Val("All"), Val(2), Absent(0)), Item(Val("Easy"), Val(1), Absent(0))>>

BaseTotal == <<Item(Val("All"), Val(3), Val(9)), Item(Val("Easy"), Val(3), Val(4))>>

BaseSSG == [acSubmissionNum |-> Val(BaseAc), totalSubmissionNum |-> Val(BaseTotal)]

SSGOpts ==
    {Absent(EmptySSG), Null(EmptySSG)} \cup
    {Val([acSubmissionNum |-> a, totalSubmissionNum |-> t]) :
        a \in {Absent(<<>>), Null(<<>>), Val(<<>>), Val(BaseAc)},
        t \in {Absent(<<>>), Null(<<>>), Val(<<>>), Val(BaseTotal)}}

\* counts the upstream may report: well-formed ones and a negative one
Counts == {Absent(0)} \cup {Val(c) : c \in -1..MaxCount}

CountItems == {Item(d, c, Absent(0)) : d \in {Absent(""), Val("Easy")}, c \in Counts}

ShortLists == {<<>>} \cup {<<a>> : a \in CountItems}

CountLists == ShortLists \cup {<<a, b>> : a \in CountItems, b \in CountItems}

\* further samples: the four buckets, null counts, the scenario 10 of 20
StatSamples ==
    {[acSubmissionNum |-> Val(<<Item(Val(d), a, Absent(0))>>),
      totalSubmissionNum |-> Val(<<Item(Val(d), t, s)>>)] :
        d \in {"All", "Easy", "Medium", "Hard"},
        a \in {Null(0), Val(0), Val(10)},
        t \in {Null(0), Val(0), Val(20)},
        s \in {Absent(0), Val(25)}}

CountSSGs ==
    {[acSubmissionNum |-> Val(a), totalSubmissionNum |-> Val(t)] :
        a \in CountLists, t \in ShortLists}
    \cup {[acSubmissionNum |-> Val(a), totalSubmissionNum |-> Val(t)] :
        a \in ShortLists, t \in CountLists}
    \cup StatSamples

Badge == "Annual Badge 2024"

BadgeOpts == {Absent(<<>>), Null(<<>>), Val(<<>>), Val(<<Badge>>)}

BaseMatched ==
    [username |-> Val("alice"), profile |-> Val(FullProfile),
     badges |-> Val(<<Badge>>), submitStatsGlobal |-> Val(BaseSSG)]

\* matchedUser objects: every combination of optional parts, every count
Matcheds ==
    {[username |-> Val("alice"), profile |-> pr, badges |-> b,
      submitStatsGlobal |-> g] :
        pr \in ProfileOpts, b \in BadgeOpts, g \in SSGOpts}
    \cup {[BaseMatched EXCEPT !.submitStatsGlobal = Val(g)] : g \in CountSSGs}
    \cup {[BaseMatched EXCEPT !.username = u] : u \in {Absent(""), Null("")}}

FullContest ==
    [rating |-> Val(1500), ranking |-> Val(10),
     attendedContestsCount |-> Val(2), globalRanking |-> Val(99),
     totalParticipants |-> Val(1000), topPercentage |-> Val(5)]

ContestOpts ==
    {Absent(EmptyContest), Null(EmptyContest), Val(EmptyContest),
     Val(FullContest), Val([EmptyContest EXCEPT !.rating = Null(0)])}

ErrorsOpts == {Absent(<<>>), Null(<<>>), Val(<<>>), Val(<<"no such user">>)}

SmallDatas ==
    {[matchedUser |-> m, userContestRanking |-> c] :
        m \in {Absent(EmptyMatched), Null(EmptyMatched), Val(EmptyMatched),
               Val(BaseMatched)},
        c \in ContestOpts}

DataOpts == {Absent(EmptyData), Null(EmptyData)} \cup {Val(d) : d \in SmallDatas}

OtherBodies == {[EmptyBody EXCEPT !.kind = k] : k \in {"nonjson", "null", "list"}}

SmallBodies ==
    OtherBodies \cup
    {[kind |-> "dict", errors |-> e, data |-> d] : e \in ErrorsOpts, d \in DataOpts}

ShapeBodies ==
    {[kind |-> "dict", errors |-> Absent(<<>>),
      data |-> Val([matchedUser |-> Val(m),
                    userContestRanking |-> Absent(EmptyContest)])] :
        m \in Matcheds}

\* every answer of requests.post the single-invocation specification draws
Replies ==
    {Raised(m) : m \in Messages}
    \cup {Answered(c, b) : c \in StatusCodes, b \in SmallBodies}
    \cup {Answered(200, b) : b \in ShapeBodies}

\* the answers drawn when invocations run concurrently
ConcReplies ==
    {Raised("Read timed out. (read timeout=12)"),
     Answered(500, EmptyBody),
     Answered(200, [EmptyBody EXCEPT !.errors = Val(<<"no such user">>)]),
     Answered(200, [EmptyBody EXCEPT !.data =
         Val([matchedUser |-> Val(BaseMatched),
              userContestRanking |-> Val(FullContest)])])}

(***************************************************************************)
(* fetch_leetcode_user, lines 114-181, one action per step                 *)
(***************************************************************************)
FetchInit ==
    /\ pc = [i \in Procs |-> "idle"]
    /\ username = [i \in Procs |-> ""]
    /\ payload = [i \in Procs |-> -1]
    /\ topHeap = [a \in Addrs |->
                    IF a = 0 THEN [query |-> QueryText, variables |-> 0]
                    ELSE NoDict]
    /\ varsHeap = [a \in Addrs |-> IF a = 0 THEN [username |-> ""] ELSE NoVars]
    /\ sent = [i \in Procs |-> NoJson]
    /\ calls = [i \in Procs |-> 0]
    /\ reply = [i \in Procs |-> NoReply]
    /\ outcome = [i \in Procs |-> NoOutcome]

\* line 187: the route handler calls fetch_leetcode_user(username)
Invoke(i, u) ==
    /\ pc[i] = "idle"
    /\ pc' = [pc EXCEPT ![i] = "copy"]
    /\ username' = [username EXCEPT ![i] = u]
    /\ UNCHANGED <<payload, topHeap, varsHeap, sent, calls, reply, outcome,
                   testVars>>

\* a slip: payload = LEETCODE_QUERY, binding the shared dict itself
AliasTemplate(i) ==
    /\ pc[i] = "copy"
    /\ payload' = [payload EXCEPT ![i] = 0]
    /\ pc' = [pc EXCEPT ![i] = "setvars"]
    /\ UNCHANGED <<username, topHeap, varsHeap, sent, calls, reply, outcome,
                   testVars>>

\* line 115: payload = LEETCODE_QUERY.copy()
CopyTemplate(i) ==
    /\ pc[i] = "copy"
    /\ topHeap' = [topHeap EXCEPT ![i] = LEETCODE_QUERY]
    /\ payload' = [payload EXCEPT ![i] = i]
    /\ pc' = [pc EXCEPT ![i] = "setvars"]
    /\ UNCHANGED <<username, varsHeap, sent, calls, reply, outcome, testVars>>

\* line 116: payload["variables"] = {"username": username}
SetVariables(i) ==
    /\ pc[i] = "setvars"
    /\ varsHeap' = [varsHeap EXCEPT ![i] = [username |-> username[i]]]
    /\ topHeap' = [topHeap EXCEPT ![payload[i]].variables = i]
    /\ pc' = [pc EXCEPT ![i] = "post"]
    /\ UNCHANGED <<username, payload, sent, calls, reply, outcome, testVars>>

\* line 119: r = requests.post(LEETCODE_GRAPHQL_URL, json=payload, timeout=12)
Post(i, answers) ==
    /\ pc[i] = "post"
    /\ sent' = [sent EXCEPT ![i] = Json(payload[i])]
    /\ calls' = [calls EXCEPT ![i] = @ + 1]
    /\ \E a \in answers : reply' = [reply EXCEPT ![i] = a]
    /\ pc' = [pc EXCEPT ![i] = "posted"]
    /\ UNCHANGED <<username, payload, topHeap, varsHeap, outcome, testVars>>

\* a slip: the except clause tries the call again
RetryOnFailure(i) ==
    /\ pc[i] = "posted"
    /\ reply[i].transport = "error"
    /\ pc' = [pc EXCEPT ![i] = "post"]
    /\ UNCHANGED <<username, payload, topHeap, varsHeap, sent, calls, reply,
                   outcome, testVars>>

\* lines 120-121: except requests.RequestException as e: raise HTTPException
RaiseOnFailure(i) ==
    /\ pc[i] = "posted"
    /\ reply[i].transport = "error"
    /\ outcome' = [outcome EXCEPT ![i] = TransportFailure(reply[i].message)]
    /\ pc' = [pc EXCEPT ![i] = "done"]
    /\ UNCHANGED <<username, payload, topHeap, varsHeap, sent, calls, reply,
                   testVars>>

\* lines 123-181: classify and shape the response, raise or return
HandleResponse(i) ==
    /\ pc[i] = "posted"
    /\ reply[i].transport = "ok"
    /\ outcome' = [outcome EXCEPT ![i] = Handle(reply[i])]
    /\ pc' = [pc EXCEPT ![i] = "done"]
    /\ UNCHANGED <<username, payload, topHeap, varsHeap, sent, calls, reply,
                   testVars>>

\* the frame of invocation i is gone: its locals and their objects are freed
Finish(i) ==
    /\ pc[i] = "done"
    /\ pc' = [pc EXCEPT ![i] = "idle"]
    /\ username' = [username EXCEPT ![i] = ""]
    /\ payload' = [payload EXCEPT ![i] = -1]
    /\ topHeap' = [topHeap EXCEPT ![i] = NoDict]
    /\ varsHeap' = [varsHeap EXCEPT ![i] = NoVars]
    /\ sent' = [sent EXCEPT ![i] = NoJson]
    /\ calls' = [calls EXCEPT ![i] = 0]
    /\ reply' = [reply EXCEPT ![i] = NoReply]
    /\ outcome' = [outcome EXCEPT ![i] = NoOutcome]
    /\ UNCHANGED testVars

(***************************************************************************)
(* test_database, lines 24-65                                              *)
(***************************************************************************)
\* s[:n]
Slice(s, n) == SubSeq(s, 1, Min(n, Len(s)))

\* a text of the given length, as the sequence of its character positions
Text(len) == [k \in 1..len |-> k]

\* the names db.list_collection_names() returns, n of them
Names(n) == [k \in 1..n |-> k]

MsgLens == {0, 49, 50, 51}

Envs == {[url |-> u, name |-> n] : u \in BOOLEAN, n \in BOOLEAN}

\* the state of the database module, the handle and the environment:
\*   module      "absent" (ImportError), "broken" (the import raises another
\*               Exception), "none" (db is None), "present"
\*   name        db has a name, lacks one, or reading it raises
\*   list        db.list_collection_names() returns or raises
\*   msg         str(e) of whichever exception is raised
DbIn(module, name, list, msg, collections, env) ==
    [module |-> module, name |-> name, list |-> list, msg |-> msg,
     collections |-> collections, env |-> env]

NoDbIn == DbIn("unset", "lacks", "ok", <<>>, <<>>, [url |-> FALSE, name |-> FALSE])

DbInputs ==
    {DbIn("absent", "lacks", "ok", <<>>, <<>>, e) : e \in Envs}
    \cup {DbIn("none", "lacks", "ok", <<>>, <<>>, e) : e \in Envs}
    \cup {DbIn("broken", "lacks", "ok", Text(l), <<>>, e) :
            l \in MsgLens, e \in Envs}
    \cup {DbIn("present", "raises", "ok", Text(l), <<>>, e) :
            l \in MsgLens, e \in Envs}
    \cup {DbIn("present", n, "raises", Text(l), <<>>, e) :
            n \in {"has", "lacks"}, l \in MsgLens, e \in Envs}
    \cup {DbIn("present", n, "ok", <<>>, Names(k), e) :
            n \in {"has", "lacks"}, k \in 0..MaxColls, e \in Envs}

Status(text, msg) == [text |-> text, msg |-> msg]

\* a slip: response["collections"] = collections
Everything(collections) == collections

\* line 49: collections[:10]
FirstTen(collections) == Slice(collections, 10)

\* lines 27-34
InitialResponse ==
    [kind |-> "none",
     backend |-> "Running",
     database |-> Status("Not Available", <<>>),
     database_url |-> "None",
     database_name |-> "None",
     connection_status |-> "Not Connected",
     collections |-> <<>>]

\* lines 47-52: the inner try, on a response r
ListCollections(r, in) ==
    IF in.list = "ok"
    THEN [r EXCEPT !.collections = FirstTen(in.collections),
                   !.database = Status("Connected & Working", <<>>)]
    ELSE [r EXCEPT !.database =
              Status("Connected but Error: ", Slice(in.msg, 50))]

\* lines 40-54: the body of the outer try once the import succeeded
Probe(r, in) ==
    IF in.module = "none"
    THEN [r EXCEPT !.database = Status("Available but not initialized", <<>>)]
    ELSE IF in.name = "raises"
    THEN [r EXCEPT !.database = Status("Error: ", Slice(in.msg, 50)),
                   !.database_url = "Configured"]
    ELSE ListCollections(
            [r EXCEPT !.database = Status("Available", <<>>),
                      !.database_url = "Configured",
                      !.database_name =
                          IF in.name = "has" THEN "db.name" ELSE "Connected",
                      !.connection_status = "Connected"],
            in)

\* lines 36-59: the outer try
Tried(r, in) ==
    IF in.module = "absent"
    THEN [r EXCEPT !.database =
              Status("Database module not found (run enable-database first)",
                     <<>>)]
    ELSE IF in.module = "broken"
    THEN [r EXCEPT !.database = Status("Error: ", Slice(in.msg, 50))]
    ELSE Probe(r, in)

\* lines 61-65
test_database(in) ==
    [Tried(InitialResponse, in) EXCEPT
        !.kind = "return",
        !.database_url = IF in.env.url THEN "Set" ELSE "Not Set",
        !.database_name = IF in.env.name THEN "Set" ELSE "Not Set"]

TestInit ==
    /\ db_in = NoDbIn
    /\ response = InitialResponse

\* GET /test
TestDatabase ==
    /\ \E in \in DbInputs :
          /\ db_in' = in
          /\ response' = test_database(in)
    /\ UNCHANGED fetchVars

(***************************************************************************)
(* Specifications                                                          *)
(***************************************************************************)
Init == FetchInit /\ TestInit

\* one invocation at a time, every answer of the upstream
Next ==
    \/ \E u \in Usernames : Invoke(1, u)
    \/ CopyTemplate(1)
    \/ SetVariables(1)
    \/ Post(1, Replies)
    \/ RaiseOnFailure(1)
    \/ HandleResponse(1)
    \/ Finish(1)

Spec == Init /\ [][Next]_vars

\* concurrent invocations (FastAPI runs sync handlers on a thread pool)
NextConc ==
    \E i \in Procs :
        \/ \E u \in Usernames : Invoke(i, u)
        \/ CopyTemplate(i)
        \/ SetVariables(i)
        \/ Post(i, ConcReplies)
        \/ RaiseOnFailure(i)
        \/ HandleResponse(i)
        \/ Finish(i)

SpecConc == Init /\ [][NextConc]_vars

\* the diagnostic endpoint
NextTest == TestDatabase

SpecTest == Init /\ [][NextTest]_vars

(***************************************************************************)
(* Properties.  Under Spec the invocation is invocation 1.                 *)
(***************************************************************************)
Ended == pc[1] = "done"

Answer == reply[1]

Got == outcome[1]

Failed(status_code) ==
    Got.kind = "HTTPException" /\ Got.status_code = status_code

HasErrors(body) ==
    body.kind = "dict" /\ body.errors.p = "val" /\ Len(body.errors.v) > 0

\* C1 as stated: a parsed body with a non-empty errors list ends in 404,
\* whatever the HTTP status of the answer
C1_AnyStatus ==
    (Ended /\ Answer.transport = "ok" /\ HasErrors(Answer.body))
        => Failed(404)

\* C1 amended: with HTTP status 200, a parsed body with a non-empty errors
\* list ends in 404; with any other status the same body ends in 502
C1_Status200 ==
    (Ended /\ Answer.transport = "ok" /\ HasErrors(Answer.body))
        => IF Answer.status_code = 200 THEN Failed(404) ELSE Failed(502)

C1_Witness ==
    /\ Ended
    /\ Answer.transport = "ok"
    /\ Answer.status_code = 200
    /\ HasErrors(Answer.body)
    /\ Answer.body.data.p = "val"
    /\ Failed(404)

\* C2: a body that is not JSON ends in 502, never in an unclassified
\* exception and never in a returned profile
C2_NonJson502 ==
    (Ended /\ Answer.transport = "ok" /\ Answer.body.kind = "nonjson")
        => Failed(502)

\* C3: a transport failure ends in 502 with the error's message in the
\* detail, and an answer whose status is not 200 ends in 502 with the status
\* code in the detail; neither ends in 404 or in a returned profile
C3_Gateway ==
    Ended =>
        /\ Answer.transport = "error" =>
              /\ Failed(502)
              /\ Got.detail.text = "Failed to reach LeetCode: "
              /\ Got.detail.arg = Answer.message
        /\ (Answer.transport = "ok" /\ Answer.status_code # 200) =>
              /\ Failed(502)
              /\ Got.detail.text = "LeetCode API error: HTTP "
              /\ Got.detail.arg = ToString(Answer.status_code)

C3_Witness ==
    /\ Ended
    /\ Answer.transport = "error"
    /\ Answer.message = "Read timed out. (read timeout=12)"
    /\ Failed(502)
    /\ Got.detail.arg = "Read timed out. (read timeout=12)"

NoMatchedUser(body) ==
    \/ body.data.p \in {"absent", "null"}
    \/ body.data.v.matchedUser.p \in {"absent", "null"}

\* C4: status 200, a JSON object without populated errors, and matchedUser
\* missing or null (also when data is missing or null) ends in 404
C4_NoMatched404 ==
    (/\ Ended
     /\ Answer.transport = "ok"
     /\ Answer.status_code = 200
     /\ Answer.body.kind = "dict"
     /\ ~HasErrors(Answer.body)
     /\ NoMatchedUser(Answer.body))
        => Failed(404)

WellFormedItems(lst) ==
    lst.p = "val" =>
        \A k \in 1..Len(lst.v) :
            lst.v[k].count.p # "null" /\ lst.v[k].difficulty.p # "null"

WellFormedStats(ssg) ==
    ssg.p = "val" =>
        /\ WellFormedItems(ssg.v.acSubmissionNum)
        /\ WellFormedItems(ssg.v.totalSubmissionNum)

IsList(f) == f.p = "val"

\* C5: status 200, no populated errors and a present matchedUser end in a
\* returned profile whichever of profile, badges, submitStatsGlobal,
\* acSubmissionNum, totalSubmissionNum, websites, skillTags are missing or
\* null, and websites, skills and badges of the profile are lists
C5_OptionalFields ==
    (/\ Ended
     /\ Answer.transport = "ok"
     /\ Answer.status_code = 200
     /\ Answer.body.kind = "dict"
     /\ ~HasErrors(Answer.body)
     /\ Answer.body.data.p = "val"
     /\ Answer.body.data.v.matchedUser.p = "val"
     /\ Answer.body.data.v.matchedUser.v.username.p = "val"
     /\ WellFormedStats(Answer.body.data.v.matchedUser.v.submitStatsGlobal))
        => /\ Got.kind = "return"
           /\ IsList(Got.result.websites)
           /\ IsList(Got.result.skills)
           /\ IsList(Got.result.badges)

\* the rate (in hundredths) is a hundredth nearest to solved / total * 100
Nearest(rate, solved, total) ==
    /\ 2 * (rate * total - solved * 10000) <= total
    /\ 2 * (solved * 10000 - rate * total) <= total

RateOk(b) ==
    (b.solved.p = "val" /\ b.total.p = "val") =>
        /\ b.total.v > 0 => Nearest(b.acceptanceRate, b.solved.v, b.total.v)
        /\ b.total.v <= 0 => b.acceptanceRate = 0
        /\ (0 <= b.solved.v /\ b.solved.v <= b.total.v) =>
              (0 <= b.acceptanceRate /\ b.acceptanceRate <= 10000)

\* C6: in a returned profile, each bucket with integer solved and total has
\* acceptanceRate = round(solved / total * 100, 2) when total > 0 and 0.0
\* otherwise, within [0, 100] whenever 0 <= solved <= total
C6_AcceptanceRate ==
    (Ended /\ Got.kind = "return") =>
        /\ RateOk(Got.result.stats.all)
        /\ RateOk(Got.result.stats.easy)
        /\ RateOk(Got.result.stats.medium)
        /\ RateOk(Got.result.stats.hard)

\* C7: in a returned profile, contest is the upstream userContestRanking
\* object whenever that is present and not null, whatever it holds, and is
\* null exactly when the upstream field is missing or null
C7_ContestPassThrough ==
    (Ended /\ Got.kind = "return") =>
        LET upstream == Answer.body.data.v.userContestRanking
        IN  /\ upstream.p = "val" => Got.result.contest = upstream
            /\ Got.result.contest.p = "null" <=>
                  upstream.p \in {"absent", "null"}

\* C8: an invocation has issued exactly one outbound call when it ends,
\* whatever its outcome; no outcome exists before the call and no failure
\* leads to a second call
C8_OneCall ==
    /\ calls[1] <= 1
    /\ Ended => calls[1] = 1
    /\ Got.kind # "none" => calls[1] = 1
    /\ pc[1] \in {"copy", "setvars", "post"} => Got.kind = "none"

C8_Witness ==
    /\ Ended
    /\ Answer.transport = "error"
    /\ Failed(502)
    /\ calls[1] = 1

FailureText ==
    {"Database module not found (run enable-database first)", "Error: ",
     "Connected but Error: ", "Available but not initialized"}

DbFails(in) ==
    \/ in.module \in {"absent", "broken", "none"}
    \/ in.name = "raises"
    \/ in.list = "raises"

\* C9: in every database state /test returns its response object; a failure
\* shows as a status text in `database`, and `collections` has at most 10
\* entries
C9_TestNeverFails ==
    db_in.module # "unset" =>
        /\ response.kind = "return"
        /\ Len(response.collections) <= 10
        /\ DbFails(db_in) <=> response.database.text \in FailureText
        /\ ~DbFails(db_in) => response.database.text = "Connected & Working"

C9_Witness ==
    /\ db_in.module = "present"
    /\ db_in.list = "ok"
    /\ Len(db_in.collections) > 10
    /\ response.kind = "return"
    /\ Len(response.collections) = 10

\* C10: under any interleaving of invocations the template LEETCODE_QUERY
\* keeps its query text and its variables {"username": ""}, and the payload
\* an invocation sends holds the fixed query text and its own username
C10_TemplateIntact ==
    /\ LEETCODE_QUERY.query = QueryText
    /\ varsHeap[LEETCODE_QUERY.variables] = [username |-> ""]
    /\ varsHeap[0] = [username |-> ""]
    /\ \A i \in Procs :
          pc[i] \in {"posted", "done"} =>
              sent[i] = [query |-> QueryText,
                         variables |-> [username |-> username[i]]]

C10_Witness ==
    /\ pc[1] = "posted"
    /\ pc[2] = "setvars"
    /\ username[1] = "alice"
    /\ username[2] = "bob"
    /\ sent[1].variables.username = "alice"

====
